---- MODULE Spec2Model ----
(***************************************************************************)
(* Model of engine::subprocess::ProcessStarter::Exec (process_starter.cpp, *)
(* kept as src/unnamed/part_000) together with the collaborators it talks  *)
(* to: the caller's cooperative task, the event-loop thread that runs the  *)
(* fork+register work item, the pid-keyed child_process_map, the operating *)
(* system's process table and the reaper that turns a termination into a   *)
(* fulfilled status promise.                                               *)
(***************************************************************************)
EXTENDS Integers, Sequences, FiniteSets, TLC

\* ---------------------------------------------------------------- bounds
NumTasks == 2      \* cooperative tasks that may call Exec
MaxPid == 2        \* size of the OS pid namespace
MaxProcs == 2      \* successful fork() calls in one behaviour

\* ------------------------------------------------------ program constants
SIGKILL == 9

Tasks == 1..NumTasks
Pids == 1..MaxPid
Procs == 1..MaxProcs

VARIABLES
  callerPc,          \* task -> position of the task around Exec / Wait
  promise,           \* task -> the outer Promise<ChildProcess> of its Exec call
  held,              \* task -> the ChildProcess handle Exec returned to it
  func_queue,        \* work items submitted with RunInEvLoopAsync, in order
  evCur,             \* task whose work item the event-loop thread runs, 0 if none
  wpc,               \* task -> position inside its work item (the lambda)
  wpid,              \* task -> `pid` local of the lambda
  wres,              \* task -> `res` local of the lambda (ChildProcessMapSet's result)
  child_process_map, \* the registry: a set of entries [pid, status_promise]
  status_promise,    \* process instance -> shared state of its Promise<ChildProcessStatus>
  os,                \* pid -> process instance that owns the pid, 0 when free
  ps,                \* process instance -> its OS-side state
  nprocs,            \* number of processes forked so far
  wproc,             \* task -> process instance its work item forked (bookkeeping)
  fork_calls,        \* task -> what each fork() of its current Exec call returned
  dangling,          \* a work item used a captured reference after its Exec returned
  status_obj,        \* a ChildProcessStatus object, NoObject before construction
  status_call,       \* the last accessor called on status_obj and what it gave
  exec_call,         \* one Exec call in detail: the form called and its arguments
  environ,           \* the current environment of the parent process
  parent_io,         \* what the parent's stdout and stderr are bound to
  child_img,         \* the child forked for exec_call, up to its execve() call
  thread_name,       \* the name the OS holds for the current thread
  tn_test,           \* TEST(ThreadName, SetSelf): position and locals
  grpc_server,       \* UnitTestServiceImpl::ReadMany: position, request, loop counter
  grpc_wire,         \* the server-to-client stream: messages written, whether closed
  grpc_stream,       \* the client's input stream: messages taken and not yet read
  grpc_client,       \* the client test: results of its reads, last IsReadFinished()
  rs_size,           \* TypedResultSet: Size() of the result set iterated
  rs_iter,           \* the iterator of the loop: direction, position, index held
  rs_visited         \* row indexes the loop has dereferenced, in order

vars == <<callerPc, promise, held, func_queue, evCur, wpc, wpid, wres,
          child_process_map, status_promise, os, ps, nprocs, wproc, fork_calls,
          dangling>>

statusVars == <<status_obj, status_call>>
execveVars == <<exec_call, environ, parent_io, child_img>>
threadVars == <<thread_name, tn_test>>
grpcVars == <<grpc_server, grpc_wire, grpc_stream, grpc_client>>
rsVars == <<rs_size, rs_iter, rs_visited>>
auxVars == <<statusVars, execveVars, threadVars, grpcVars, rsVars>>
allVars == <<vars, auxVars>>

\* ------------------------------------------------------------ data values
NoStatus == [proc |-> 0, reason |-> "none", code |-> 0]
Exited(i, c) == [proc |-> i, reason |-> "kExited", code |-> c]
Signaled(i, s) == [proc |-> i, reason |-> "kSignaled", code |-> s]

\* A ChildProcess handle: its pid, the status promise its future reads, the
\* status it has retrieved; proc records which process it was issued for and
\* sig the outcome of the last SendSignal made through it.
NoHandle == [pid |-> 0, future |-> 0, proc |-> 0, status |-> NoStatus,
             sig |-> "none"]
NoEntry == [pid |-> 0, status_promise |-> 0]
NoRes == [first |-> NoEntry, second |-> FALSE]

EmptyPromise == [state |-> "none", handle |-> NoHandle, nset |-> 0]
FreshPromise == [state |-> "pending", handle |-> NoHandle, nset |-> 0]
NoSlot == [state |-> "none", status |-> NoStatus, nset |-> 0]
NoProc == [pid |-> 0, state |-> "none", status |-> NoStatus, kill |-> FALSE]

Live == {"DoExecve", "running", "escaped"}

\* utils::CheckSyscall: a syscall result of -1 raises an exception carrying
\* the OS error, any other result is returned to the caller.
CheckSyscall(ret) == IF ret = -1 THEN "throw" ELSE "return"

\* --------------------------------------------------------------- registry
HasEntry(pid) == \E e \in child_process_map : e.pid = pid
EntryOf(pid) == CHOOSE e \in child_process_map : e.pid = pid

\* ev::ChildProcessMapSet: insert-if-absent; returns the entry now stored under
\* pid and whether the insertion took place.
ChildProcessMapSet(pid, value) ==
  IF HasEntry(pid)
  THEN [map |-> child_process_map, first |-> EntryOf(pid), second |-> FALSE]
  ELSE [map |-> child_process_map \cup {[pid |-> pid, status_promise |-> value]},
        first |-> [pid |-> pid, status_promise |-> value], second |-> TRUE]

\* ChildProcessImpl::SendSignal: kill(pid, signum) reaches whichever process
\* owns the pid at that moment.
SendSignal(pid, signum) ==
  IF os[pid] # 0 /\ signum = SIGKILL
  THEN [ps EXCEPT ![os[pid]].kill = TRUE]
  ELSE ps

\* ------------------------------------------------------------------- Init
NoObject == [exit_reason |-> "none", exit_code |-> 0, term_signal |-> 0,
             execution_time |-> 0]
\* What a call gave: a returned value, or the exception it raised.
Returns(v) == [throws |-> "none", value |-> v]
Throws(e) == [throws |-> e, value |-> 0]
NoCall == [fn |-> "none", result |-> Returns(0)]

StatusIdle ==
  /\ status_obj = NoObject
  /\ status_call = NoCall

\* boost::optional<std::string>
None == <<>>
Some(v) == <<v>>

\* A stdio stream: the file it is bound to and the mode it was opened in.
Inherited(name) == [path |-> name, mode |-> "inherited"]
Closed == [path |-> "", mode |-> "closed"]

NoExecCall == [orig |-> "none", form |-> "none", command |-> "", args |-> <<>>,
               env |-> <<>>, env_update |-> <<>>,
               stdout_file |-> None, stderr_file |-> None]
NoChild == [pc |-> "none", env |-> <<>>, stdout |-> Closed, stderr |-> Closed,
            argv_ptrs |-> <<>>, envp_buf |-> <<>>, envp_ptrs |-> <<>>]
ParentStreams == [stdout |-> Inherited("stdout"), stderr |-> Inherited("stderr")]

ExecveIdle ==
  /\ exec_call = NoExecCall
  /\ environ = <<>>
  /\ parent_io = ParentStreams
  /\ child_img = NoChild

NoThreadTest == [pc |-> "none", old_name |-> <<>>, new_name |-> <<>>,
                 seen_new |-> <<>>, seen_old |-> <<>>]

ThreadIdle ==
  /\ thread_name = <<>>
  /\ tn_test = NoThreadTest

GrpcIdle ==
  /\ grpc_server = [pc |-> "none", number |-> 0, i |-> 0]
  /\ grpc_wire = [msgs |-> <<>>, closed |-> FALSE]
  /\ grpc_stream = [taken |-> 0, buffer |-> <<>>, finished |-> FALSE]
  /\ grpc_client = [reads |-> <<>>, finished |-> None]

ResultSetIdle ==
  /\ rs_size = 0
  /\ rs_iter = [dir |-> "none", pc |-> "none", index |-> 0]
  /\ rs_visited = <<>>

AuxIdle == StatusIdle /\ ExecveIdle /\ ThreadIdle /\ GrpcIdle /\ ResultSetIdle

ProcInit ==
  /\ callerPc = [t \in Tasks |-> "idle"]
  /\ promise = [t \in Tasks |-> EmptyPromise]
  /\ held = [t \in Tasks |-> NoHandle]
  /\ func_queue = <<>>
  /\ evCur = 0
  /\ wpc = [t \in Tasks |-> "none"]
  /\ wpid = [t \in Tasks |-> 0]
  /\ wres = [t \in Tasks |-> NoRes]
  /\ child_process_map = {}
  /\ status_promise = [i \in Procs |-> NoSlot]
  /\ os = [p \in Pids |-> 0]
  /\ ps = [i \in Procs |-> NoProc]
  /\ nprocs = 0
  /\ wproc = [t \in Tasks |-> 0]
  /\ fork_calls = [t \in Tasks |-> <<>>]
  /\ dangling = FALSE

Init == ProcInit /\ AuxIdle

\* ------------------------------------------------------- the caller's task
\* Exec, lines 75-79: create the outer promise and submit the lambda.
ExecCall(t) ==
  /\ callerPc[t] = "idle"
  /\ wpc[t] = "none"
  /\ callerPc' = [callerPc EXCEPT ![t] = "in_exec"]
  /\ promise' = [promise EXCEPT ![t] = FreshPromise]
  /\ func_queue' = Append(func_queue, t)
  /\ wpc' = [wpc EXCEPT ![t] = "queued"]
  /\ UNCHANGED <<held, evCur, wpid, wres, child_process_map, status_promise,
                 os, ps, nprocs, wproc>>
  /\ fork_calls' = [fork_calls EXCEPT ![t] = <<>>]
  /\ UNCHANGED <<dangling, auxVars>>

\* Exec, lines 115-116: future.get() returns the handle or rethrows as soon as
\* the promise is completed; promise, span and the other objects the lambda
\* captured go out of scope. The lambda may not have come to its end yet: its
\* locals are forgotten here if it has, and at its end otherwise.
ExecReturn(t) ==
  /\ callerPc[t] = "in_exec"
  /\ promise[t].state \in {"value", "exception"}
  /\ IF promise[t].state = "value"
     THEN /\ callerPc' = [callerPc EXCEPT ![t] = "has_handle"]
          /\ held' = [held EXCEPT ![t] = promise[t].handle]
     ELSE /\ callerPc' = [callerPc EXCEPT ![t] = "exec_threw"]
          /\ held' = [held EXCEPT ![t] = NoHandle]
  /\ promise' = [promise EXCEPT ![t] = EmptyPromise]
  /\ IF wpc[t] = "done"
     THEN /\ wpc' = [wpc EXCEPT ![t] = "none"]
          /\ wpid' = [wpid EXCEPT ![t] = 0]
          /\ wres' = [wres EXCEPT ![t] = NoRes]
          /\ wproc' = [wproc EXCEPT ![t] = 0]
          /\ fork_calls' = [fork_calls EXCEPT ![t] = <<>>]
     ELSE UNCHANGED <<wpc, wpid, wres, wproc, fork_calls>>
  /\ UNCHANGED <<func_queue, evCur, child_process_map, status_promise, os, ps,
                 nprocs>>
  /\ UNCHANGED <<dangling, auxVars>>

\* ChildProcess::Get: the handle's future yields the status once fulfilled.
Wait(t) ==
  /\ callerPc[t] = "has_handle"
  /\ held[t].future # 0
  /\ status_promise[held[t].future].state = "ready"
  /\ callerPc' = [callerPc EXCEPT ![t] = "has_status"]
  /\ held' = [held EXCEPT ![t].status = status_promise[held[t].future].status]
  /\ UNCHANGED <<promise, func_queue, evCur, wpc, wpid, wres,
                 child_process_map, status_promise, os, ps, nprocs, wproc>>
  /\ UNCHANGED <<fork_calls, dangling, auxVars>>

\* The task lets go of the handle (or of the exception) and may call Exec again.
Release(t) ==
  /\ callerPc[t] \in {"has_handle", "has_status", "exec_threw"}
  /\ callerPc' = [callerPc EXCEPT ![t] = "idle"]
  /\ held' = [held EXCEPT ![t] = NoHandle]
  /\ UNCHANGED <<promise, func_queue, evCur, wpc, wpid, wres,
                 child_process_map, status_promise, os, ps, nprocs, wproc>>
  /\ UNCHANGED <<fork_calls, dangling, auxVars>>

\* Variant of HandleSendSignal: the signal is forwarded to the pid whatever
\* the state of the handle.
HandleSendSignal_Unguarded(t) ==
  /\ callerPc[t] \in {"has_handle", "has_status"}
  /\ held[t] # NoHandle
  /\ ps' = SendSignal(held[t].pid, SIGKILL)
  /\ held' = [held EXCEPT ![t].sig = "sent"]
  /\ UNCHANGED <<callerPc, promise, func_queue, evCur, wpc, wpid, wres,
                 child_process_map, status_promise, os, nprocs, wproc>>
  /\ UNCHANGED <<fork_calls, dangling, auxVars>>

\* ChildProcess::SendSignal on a handle: refused once the handle's status has
\* been retrieved, otherwise kill(pid, SIGKILL).
HandleSendSignal(t) ==
  /\ callerPc[t] \in {"has_handle", "has_status"}
  /\ held[t] # NoHandle
  /\ IF held[t].status # NoStatus
     THEN /\ ps' = ps
          /\ held' = [held EXCEPT ![t].sig = "refused"]
     ELSE /\ ps' = SendSignal(held[t].pid, SIGKILL)
          /\ held' = [held EXCEPT ![t].sig = "sent"]
  /\ UNCHANGED <<callerPc, promise, func_queue, evCur, wpc, wpid, wres,
                 child_process_map, status_promise, os, nprocs, wproc>>
  /\ UNCHANGED <<fork_calls, dangling, auxVars>>

\* ------------------------------------------------ the event-loop work item
\* The lambda of line 79 captures by reference ([&]): promise, span, command,
\* args, env and the two files live in the frame of the caller's Exec. A use of
\* one of them after that Exec has returned is a use of a dead object.
UseCaptured(t) == dangling' = (dangling \/ callerPc[t] # "in_exec")

\* Variant of EvStart: the function is run at once on whichever thread asks,
\* without waiting for the event-loop thread to be free.
EvStart_Inline(t) ==
  /\ func_queue # <<>>
  /\ Head(func_queue) = t
  /\ func_queue' = Tail(func_queue)
  /\ wpc' = [wpc EXCEPT ![t] = "fork"]
  /\ UNCHANGED <<callerPc, promise, held, evCur, wpid, wres, child_process_map,
                 status_promise, os, ps, nprocs, wproc>>
  /\ UNCHANGED <<fork_calls, dangling, auxVars>>

\* line 79, RunInEvLoopAsync: the event-loop thread takes the next queued
\* function once it is free.
EvStart(t) ==
  /\ evCur = 0
  /\ func_queue # <<>>
  /\ Head(func_queue) = t
  /\ func_queue' = Tail(func_queue)
  /\ evCur' = t
  /\ wpc' = [wpc EXCEPT ![t] = "fork"]
  /\ UNCHANGED <<callerPc, promise, held, wpid, wres, child_process_map,
                 status_promise, os, ps, nprocs, wproc>>
  /\ UNCHANGED <<fork_calls, dangling, auxVars>>

\* Variant of EvForkFails: a failed fork() is tried again.
EvForkFails_Retry(t) ==
  /\ wpc[t] = "fork"
  /\ Len(fork_calls[t]) < 2
  /\ fork_calls' = [fork_calls EXCEPT ![t] = Append(@, -1)]
  /\ UNCHANGED <<callerPc, promise, held, func_queue, evCur, wpc, wpid, wres,
                 child_process_map, status_promise, os, ps, nprocs, wproc>>
  /\ UseCaptured(t)
  /\ UNCHANGED auxVars

\* line 92, fork() returns -1: CheckSyscall throws out of the lambda; neither
\* set_value nor set_exception is reached. The event-loop thread is taken to
\* survive the exception and go on with its other callbacks.
EvForkFails(t) ==
  /\ wpc[t] = "fork"
  /\ CheckSyscall(-1) = "throw"
  /\ wpc' = [wpc EXCEPT ![t] = "threw"]
  /\ evCur' = 0
  /\ UNCHANGED <<callerPc, promise, held, func_queue, wpid, wres,
                 child_process_map, status_promise, os, ps, nprocs, wproc>>
  /\ fork_calls' = [fork_calls EXCEPT ![t] = Append(@, -1)]
  /\ UseCaptured(t)
  /\ UNCHANGED auxVars

\* Variant of EvFork: registration is left to a later callback, so the
\* event-loop thread is free again right after fork().
EvFork_Yield(t) ==
  /\ wpc[t] = "fork"
  /\ nprocs < MaxProcs
  /\ \E p \in Pids :
       /\ os[p] = 0
       /\ nprocs' = nprocs + 1
       /\ os' = [os EXCEPT ![p] = nprocs + 1]
       /\ ps' = [ps EXCEPT ![nprocs + 1] =
                   [pid |-> p, state |-> "DoExecve", status |-> NoStatus,
                    kill |-> FALSE]]
       /\ wpid' = [wpid EXCEPT ![t] = p]
       /\ fork_calls' = [fork_calls EXCEPT ![t] = Append(@, p)]
  /\ wproc' = [wproc EXCEPT ![t] = nprocs + 1]
  /\ wpc' = [wpc EXCEPT ![t] = "register"]
  /\ evCur' = 0
  /\ UNCHANGED <<callerPc, promise, held, func_queue, wres,
                 child_process_map, status_promise>>
  /\ UseCaptured(t)
  /\ UNCHANGED auxVars

\* line 92, fork() returns a pid the OS had free: the child starts in DoExecve,
\* the parent goes on to line 97.
EvFork(t) ==
  /\ wpc[t] = "fork"
  /\ nprocs < MaxProcs
  /\ \E p \in Pids :
       /\ os[p] = 0
       /\ CheckSyscall(p) = "return"
       /\ nprocs' = nprocs + 1
       /\ os' = [os EXCEPT ![p] = nprocs + 1]
       /\ ps' = [ps EXCEPT ![nprocs + 1] =
                   [pid |-> p, state |-> "DoExecve", status |-> NoStatus,
                    kill |-> FALSE]]
       /\ wpid' = [wpid EXCEPT ![t] = p]
       /\ fork_calls' = [fork_calls EXCEPT ![t] = Append(@, p)]
  /\ wproc' = [wproc EXCEPT ![t] = nprocs + 1]
  /\ wpc' = [wpc EXCEPT ![t] = "register"]
  /\ UNCHANGED <<callerPc, promise, held, func_queue, evCur, wres,
                 child_process_map, status_promise>>
  /\ UseCaptured(t)
  /\ UNCHANGED auxVars

\* Variant of EvRegister: the new promise is stored under pid whether or not
\* an entry is there already.
EvRegister_Overwrite(t) ==
  /\ wpc[t] = "register"
  /\ LET i == wproc[t]
         new == [pid |-> wpid[t], status_promise |-> i]
     IN /\ child_process_map' =
             {e \in child_process_map : e.pid # wpid[t]} \cup {new}
        /\ wres' = [wres EXCEPT ![t] = [first |-> new, second |-> TRUE]]
        /\ status_promise' = [status_promise EXCEPT ![i] =
             [state |-> "pending", status |-> NoStatus, nset |-> 0]]
        /\ wpc' = [wpc EXCEPT ![t] = "set_value"]
  /\ UNCHANGED <<callerPc, promise, held, func_queue, evCur, wpid, os, ps,
                 nprocs, wproc>>
  /\ UNCHANGED <<fork_calls, dangling, auxVars>>

\* Variant of EvRegister: res.second is not looked at, the handle is built
\* from res.first in either case.
EvRegister_NoCheck(t) ==
  /\ wpc[t] = "register"
  /\ LET i == wproc[t]
         res == ChildProcessMapSet(wpid[t], i)
     IN /\ child_process_map' = res.map
        /\ wres' = [wres EXCEPT ![t] = [first |-> res.first, second |-> res.second]]
        /\ status_promise' = [status_promise EXCEPT ![i] =
             [state |-> IF res.second THEN "pending" ELSE "broken",
              status |-> NoStatus, nset |-> 0]]
        /\ wpc' = [wpc EXCEPT ![t] = "set_value"]
  /\ UNCHANGED <<callerPc, promise, held, func_queue, evCur, wpid, os, ps,
                 nprocs, wproc>>
  /\ UNCHANGED <<fork_calls, dangling, auxVars>>

\* lines 97-100: a fresh status promise is offered to the registry under pid;
\* when the registry refuses it, the promise dies with the temporary.
EvRegister(t) ==
  /\ wpc[t] = "register"
  /\ LET i == wproc[t]
         res == ChildProcessMapSet(wpid[t], i)
     IN /\ child_process_map' = res.map
        /\ wres' = [wres EXCEPT ![t] = [first |-> res.first, second |-> res.second]]
        /\ status_promise' = [status_promise EXCEPT ![i] =
             [state |-> IF res.second THEN "pending" ELSE "broken",
              status |-> NoStatus, nset |-> 0]]
        /\ wpc' = [wpc EXCEPT ![t] = IF res.second THEN "set_value" ELSE "kill"]
  /\ UNCHANGED <<callerPc, promise, held, func_queue, evCur, wpid, os, ps,
                 nprocs, wproc>>
  /\ UNCHANGED <<fork_calls, dangling, auxVars>>

\* Variant of EvSetValue: the handle is built with a pid other than the one
\* fork() returned.
EvSetValue_OtherPid(t) ==
  /\ wpc[t] = "set_value"
  /\ promise' = [promise EXCEPT ![t] =
       [state |-> "value",
        handle |-> [pid |-> (wpid[t] % MaxPid) + 1,
                    future |-> wres[t].first.status_promise,
                    proc |-> wproc[t], status |-> NoStatus, sig |-> "none"],
        nset |-> promise[t].nset + 1]]
  /\ wpc' = [wpc EXCEPT ![t] = "exit"]
  /\ UNCHANGED <<callerPc, held, func_queue, evCur, wpid, wres, child_process_map,
                 status_promise, os, ps, nprocs, wproc>>
  /\ UseCaptured(t)
  /\ UNCHANGED <<fork_calls, auxVars>>

\* lines 101-102: the handle carries pid and the future of the stored entry.
EvSetValue(t) ==
  /\ wpc[t] = "set_value"
  /\ promise' = [promise EXCEPT ![t] =
       [state |-> "value",
        handle |-> [pid |-> wpid[t], future |-> wres[t].first.status_promise,
                    proc |-> wproc[t], status |-> NoStatus, sig |-> "none"],
        nset |-> promise[t].nset + 1]]
  /\ wpc' = [wpc EXCEPT ![t] = "exit"]
  /\ UNCHANGED <<callerPc, held, func_queue, evCur, wpid, wres, child_process_map,
                 status_promise, os, ps, nprocs, wproc>>
  /\ UseCaptured(t)
  /\ UNCHANGED <<fork_calls, auxVars>>

\* Variant of EvKill: the collision is logged but no signal is sent.
EvKill_NoSignal(t) ==
  /\ wpc[t] = "kill"
  /\ wpc' = [wpc EXCEPT ![t] = "set_exception"]
  /\ UNCHANGED <<callerPc, promise, held, func_queue, evCur, wpid, wres,
                 child_process_map, status_promise, os, ps, nprocs, wproc>>
  /\ UNCHANGED <<fork_calls, dangling, auxVars>>

\* lines 104-107: collision; SIGKILL goes to the new pid.
EvKill(t) ==
  /\ wpc[t] = "kill"
  /\ ps' = SendSignal(wpid[t], SIGKILL)
  /\ wpc' = [wpc EXCEPT ![t] = "set_exception"]
  /\ UNCHANGED <<callerPc, promise, held, func_queue, evCur, wpid, wres,
                 child_process_map, status_promise, os, nprocs, wproc>>
  /\ UNCHANGED <<fork_calls, dangling, auxVars>>

\* Variant of EvSetException: the failing call also erases the entry stored
\* under its pid.
EvSetException_Erase(t) ==
  /\ wpc[t] = "set_exception"
  /\ promise' = [promise EXCEPT ![t] =
       [state |-> "exception", handle |-> NoHandle, nset |-> promise[t].nset + 1]]
  /\ child_process_map' = {e \in child_process_map : e.pid # wpid[t]}
  /\ wpc' = [wpc EXCEPT ![t] = "exit"]
  /\ UNCHANGED <<callerPc, held, func_queue, evCur, wpid, wres,
                 status_promise, os, ps, nprocs, wproc>>
  /\ UseCaptured(t)
  /\ UNCHANGED <<fork_calls, auxVars>>

\* line 108: the outer promise is failed with the collision error.
EvSetException(t) ==
  /\ wpc[t] = "set_exception"
  /\ promise' = [promise EXCEPT ![t] =
       [state |-> "exception", handle |-> NoHandle, nset |-> promise[t].nset + 1]]
  /\ wpc' = [wpc EXCEPT ![t] = "exit"]
  /\ UNCHANGED <<callerPc, held, func_queue, evCur, wpid, wres, child_process_map,
                 status_promise, os, ps, nprocs, wproc>>
  /\ UseCaptured(t)
  /\ UNCHANGED <<fork_calls, auxVars>>

\* Variant of EvExit: the span is tagged once more after the promise has been
\* completed.
EvExit_TagSpan(t) ==
  /\ wpc[t] = "exit"
  /\ evCur' = 0
  /\ IF callerPc[t] = "in_exec"
     THEN /\ wpc' = [wpc EXCEPT ![t] = "done"]
          /\ UNCHANGED <<wpid, wres, wproc, fork_calls>>
     ELSE /\ wpc' = [wpc EXCEPT ![t] = "none"]
          /\ wpid' = [wpid EXCEPT ![t] = 0]
          /\ wres' = [wres EXCEPT ![t] = NoRes]
          /\ wproc' = [wproc EXCEPT ![t] = 0]
          /\ fork_calls' = [fork_calls EXCEPT ![t] = <<>>]
  /\ UNCHANGED <<callerPc, promise, held, func_queue, child_process_map,
                 status_promise, os, ps, nprocs>>
  /\ UseCaptured(t)
  /\ UNCHANGED auxVars

\* lines 102-103 and 108-114: after the completion the lambda only leaves its
\* blocks, destroying its locals (res, msg, exec_result_promise), and gives the
\* event-loop thread back; the caller's Exec may have returned meanwhile.
EvExit(t) ==
  /\ wpc[t] = "exit"
  /\ evCur' = 0
  /\ IF callerPc[t] = "in_exec"
     THEN /\ wpc' = [wpc EXCEPT ![t] = "done"]
          /\ UNCHANGED <<wpid, wres, wproc, fork_calls>>
     ELSE /\ wpc' = [wpc EXCEPT ![t] = "none"]
          /\ wpid' = [wpid EXCEPT ![t] = 0]
          /\ wres' = [wres EXCEPT ![t] = NoRes]
          /\ wproc' = [wproc EXCEPT ![t] = 0]
          /\ fork_calls' = [fork_calls EXCEPT ![t] = <<>>]
  /\ UNCHANGED <<callerPc, promise, held, func_queue, child_process_map,
                 status_promise, os, ps, nprocs>>
  /\ UNCHANGED <<dangling, auxVars>>

\* ------------------------------------------------------- the forked child
\* DoExecve, lines 58-59, execve succeeds: the image is replaced.
ChildExecveOk(i) ==
  /\ ps[i].state = "DoExecve"
  /\ ps' = [ps EXCEPT ![i].state = "running"]
  /\ UNCHANGED <<callerPc, promise, held, func_queue, evCur, wpc, wpid, wres,
                 child_process_map, status_promise, os, nprocs, wproc>>
  /\ UNCHANGED <<fork_calls, dangling, auxVars>>

\* DoExecve, lines 58-61, execve returns -1: CheckSyscall decides whether
\* abort() at line 61 is reached or an exception leaves DoExecve.
ChildExecveFails(i) ==
  /\ ps[i].state = "DoExecve"
  /\ IF CheckSyscall(-1) = "throw"
     THEN ps' = [ps EXCEPT ![i].state = "escaped"]
     ELSE ps' = [ps EXCEPT ![i].state = "zombie",
                           ![i].status = Signaled(i, 6)]
  /\ UNCHANGED <<callerPc, promise, held, func_queue, evCur, wpc, wpid, wres,
                 child_process_map, status_promise, os, nprocs, wproc>>
  /\ UNCHANGED <<fork_calls, dangling, auxVars>>

\* --------------------------------------------------- the operating system
\* A live process terminates: by SIGKILL when one was sent, else by exit(0).
Terminate(i) ==
  /\ ps[i].state \in Live
  /\ ps' = [ps EXCEPT ![i].state = "zombie",
                      ![i].status = IF ps[i].kill THEN Signaled(i, SIGKILL)
                                    ELSE Exited(i, 0)]
  /\ UNCHANGED <<callerPc, promise, held, func_queue, evCur, wpc, wpid, wres,
                 child_process_map, status_promise, os, nprocs, wproc>>
  /\ UNCHANGED <<fork_calls, dangling, auxVars>>

\* The reaper, a callback of the event-loop thread: it collects a terminated
\* child, completes the pending slot stored under its pid and removes the entry.
Reaper(p) ==
  /\ evCur = 0
  /\ os[p] # 0
  /\ ps[os[p]].state = "zombie"
  /\ LET i == os[p]
     IN /\ ps' = [ps EXCEPT ![i] = [pid |-> 0, state |-> "reaped",
                                    status |-> NoStatus, kill |-> FALSE]]
        /\ os' = [os EXCEPT ![p] = 0]
        /\ IF HasEntry(p)
           THEN LET s == EntryOf(p).status_promise
                IN /\ status_promise' = [status_promise EXCEPT ![s] =
                        [state |-> "ready", status |-> ps[i].status,
                         nset |-> status_promise[s].nset + 1]]
                   /\ child_process_map' = child_process_map \ {EntryOf(p)}
           ELSE UNCHANGED <<status_promise, child_process_map>>
  /\ UNCHANGED <<callerPc, promise, held, func_queue, evCur, wpc, wpid, wres,
                 nprocs, wproc>>
  /\ UNCHANGED <<fork_calls, dangling, auxVars>>

\* A terminated child is collected by a wait elsewhere in the process, not by
\* the reaper: its pid becomes free while its registration stays behind.
ReapElsewhere(p) ==
  /\ os[p] # 0
  /\ ps[os[p]].state = "zombie"
  /\ ps' = [ps EXCEPT ![os[p]] = [pid |-> 0, state |-> "reaped_elsewhere",
                                  status |-> NoStatus, kill |-> FALSE]]
  /\ os' = [os EXCEPT ![p] = 0]
  /\ UNCHANGED <<callerPc, promise, held, func_queue, evCur, wpc, wpid, wres,
                 child_process_map, status_promise, nprocs, wproc>>
  /\ UNCHANGED <<fork_calls, dangling, auxVars>>

\* ------------------------------------------------------------------ Next
Next ==
  \/ \E t \in Tasks : ExecCall(t)
  \/ \E t \in Tasks : ExecReturn(t)
  \/ \E t \in Tasks : Wait(t)
  \/ \E t \in Tasks : Release(t)
  \/ \E t \in Tasks : EvStart(t)
  \/ \E t \in Tasks : EvForkFails(t)
  \/ \E t \in Tasks : EvFork(t)
  \/ \E t \in Tasks : EvRegister(t)
  \/ \E t \in Tasks : EvSetValue(t)
  \/ \E t \in Tasks : EvKill(t)
  \/ \E t \in Tasks : EvSetException(t)
  \/ \E t \in Tasks : EvExit(t)
  \/ \E i \in Procs : ChildExecveOk(i)
  \/ \E i \in Procs : ChildExecveFails(i)
  \/ \E i \in Procs : Terminate(i)
  \/ \E p \in Pids : Reaper(p)
  \/ \E p \in Pids : ReapElsewhere(p)

Spec == Init /\ [][Next]_allVars

\* The same system with holders that also send signals through their handles.
NextSig ==
  \/ Next
  \/ \E t \in Tasks : HandleSendSignal(t)

SpecSig == Init /\ [][NextSig]_allVars

\* Normal operation: every terminated child is collected by the reaper, so no
\* registration goes stale and the collision branch is never entered. The
\* event-loop thread runs each work item to its end and serves the reaper's
\* callback; the OS lets every process terminate.
NextLive ==
  \/ \E t \in Tasks : ExecCall(t)
  \/ \E t \in Tasks : ExecReturn(t)
  \/ \E t \in Tasks : Wait(t)
  \/ \E t \in Tasks : Release(t)
  \/ \E t \in Tasks : HandleSendSignal(t)
  \/ \E t \in Tasks : EvStart(t)
  \/ \E t \in Tasks : EvForkFails(t)
  \/ \E t \in Tasks : EvFork(t)
  \/ \E t \in Tasks : EvRegister(t)
  \/ \E t \in Tasks : EvSetValue(t)
  \/ \E t \in Tasks : EvExit(t)
  \/ \E i \in Procs : ChildExecveOk(i)
  \/ \E i \in Procs : ChildExecveFails(i)
  \/ \E i \in Procs : Terminate(i)
  \/ \E p \in Pids : Reaper(p)

LiveSpec ==
  /\ Init
  /\ [][NextLive]_allVars
  /\ \A t \in Tasks : WF_allVars(EvFork(t) \/ EvForkFails(t))
  /\ \A t \in Tasks : WF_allVars(EvRegister(t))
  /\ \A t \in Tasks : WF_allVars(EvSetValue(t))
  /\ \A t \in Tasks : WF_allVars(EvExit(t))
  /\ \A i \in Procs : WF_allVars(Terminate(i))
  /\ \A p \in Pids : SF_allVars(Reaper(p))

\* ===================================================== ChildProcessStatus
MaxExecTime == 3                 \* execution times tried, in milliseconds
ExitCodes == {0, 1, 2, 255}      \* exit codes tried
TermSignals == {6, SIGKILL, 15}  \* terminating signals tried

\* Raw wait statuses as waitpid reports them: exit code in bits 8..15 for a
\* normal exit, the terminating signal in bits 0..6 otherwise.
RawStatuses == {c * 256 : c \in ExitCodes} \cup TermSignals
WIFEXITED(raw) == raw % 128 = 0
WEXITSTATUS(raw) == (raw \div 256) % 256
WTERMSIG(raw) == raw % 128

\* ChildProcessStatus::ChildProcessStatus(status, execution_time): classifies
\* the raw status; the member that does not apply is left 0.
ChildProcessStatus(raw, time) ==
  [exit_reason |-> IF WIFEXITED(raw) THEN "kExited" ELSE "kSignaled",
   exit_code |-> IF WIFEXITED(raw) THEN WEXITSTATUS(raw) ELSE 0,
   term_signal |-> IF WIFEXITED(raw) THEN 0 ELSE WTERMSIG(raw),
   execution_time |-> time]

\* child_process_status.hpp line 21
GetExitReason(s) == s.exit_reason

\* child_process_status.hpp line 23
IsExited(s) == s.exit_reason = "kExited"

\* Variant of IsSignaled: compares with the wrong enumerator.
IsSignaled_WrongEnum(s) == s.exit_reason = "kExited"

\* child_process_status.hpp line 28
IsSignaled(s) == s.exit_reason = "kSignaled"

\* child_process_status.hpp line 34
GetExecutionTime(s) == s.execution_time

\* Variant of GetExitCode: hands out the member without looking at the reason.
GetExitCode_Unchecked(s) == Returns(s.exit_code)

\* ChildProcessStatus::GetExitCode: "can be called if IsExited() returns true";
\* otherwise a ChildProcessStatusException is raised.
GetExitCode(s) ==
  IF IsExited(s) THEN Returns(s.exit_code)
  ELSE Throws("ChildProcessStatusException")

\* ChildProcessStatus::GetTermSignal: "can be called if IsSignaled() returns
\* true"; otherwise a ChildProcessStatusException is raised.
GetTermSignal(s) ==
  IF IsSignaled(s) THEN Returns(s.term_signal)
  ELSE Throws("ChildProcessStatusException")

\* The reaper builds the status of a finished child.
StatusConstruct ==
  /\ status_obj = NoObject
  /\ \E raw \in RawStatuses, time \in 0..MaxExecTime :
       status_obj' = ChildProcessStatus(raw, time)
  /\ status_call' = NoCall
  /\ UNCHANGED <<vars, rsVars, execveVars, threadVars, grpcVars>>

\* A holder of the status calls one of its const accessors.
StatusIsExited ==
  /\ status_obj # NoObject
  /\ status_call' = [fn |-> "IsExited", result |-> Returns(IsExited(status_obj))]
  /\ UNCHANGED <<vars, rsVars, status_obj, execveVars, threadVars, grpcVars>>

StatusIsSignaled ==
  /\ status_obj # NoObject
  /\ status_call' = [fn |-> "IsSignaled", result |-> Returns(IsSignaled(status_obj))]
  /\ UNCHANGED <<vars, rsVars, status_obj, execveVars, threadVars, grpcVars>>

StatusGetExitCode ==
  /\ status_obj # NoObject
  /\ status_call' = [fn |-> "GetExitCode", result |-> GetExitCode(status_obj)]
  /\ UNCHANGED <<vars, rsVars, status_obj, execveVars, threadVars, grpcVars>>

StatusGetTermSignal ==
  /\ status_obj # NoObject
  /\ status_call' = [fn |-> "GetTermSignal", result |-> GetTermSignal(status_obj)]
  /\ UNCHANGED <<vars, rsVars, status_obj, execveVars, threadVars, grpcVars>>

NextStatus ==
  \/ StatusConstruct
  \/ StatusIsExited
  \/ StatusIsSignaled
  \/ StatusGetExitCode
  \/ StatusGetTermSignal

SpecStatus == Init /\ [][NextStatus]_allVars

\* ============================================ the three Exec forms, DoExecve
MaxEnvLen == 2             \* variables in an environment or an update
EnvNames == {"A", "B", "C"}  \* variable names tried
EnvValues == {"x", "y"}    \* variable values tried

\* EnvironmentVariables / EnvironmentVariablesUpdate: name-value pairs with
\* distinct names, in the mapping's iteration order.
EnvMaps ==
  UNION {{e \in [1..n -> EnvNames \X EnvValues] :
            \A i, j \in 1..n : i # j => e[i][1] # e[j][1]} : n \in 0..MaxEnvLen}

EnvKeys(env) == {env[k][1] : k \in 1..Len(env)}
EnvValue(env, name) ==
  LET k == CHOOSE k \in 1..Len(env) : env[k][1] = name IN env[k][2]

\* EnvironmentVariables::UpdateWith: values of names the update mentions are
\* replaced, names it adds are appended, the rest is kept.
UpdateWith(env, update) ==
  LET kept == [k \in 1..Len(env) |->
                 IF env[k][1] \in EnvKeys(update)
                 THEN <<env[k][1], EnvValue(update, env[k][1])>>
                 ELSE env[k]]
      IsNew(e) == e[1] \notin EnvKeys(env)
  IN kept \o SelectSeq(update, IsNew)

\* GetCurrentEnvironmentVariables
GetCurrentEnvironmentVariables == environ

\* Variant of ExecCurrentEnv: delegates to the full-environment form with an
\* empty environment.
ExecCurrentEnv_EmptyFull ==
  /\ exec_call.form = "current"
  /\ child_img.pc = "none"
  /\ exec_call' = [exec_call EXCEPT !.form = "full", !.env = <<>>]
  /\ UNCHANGED <<vars, rsVars, statusVars, threadVars, grpcVars, environ, parent_io, child_img>>

\* lines 129-135: Exec without an environment calls the update form with an
\* empty update.
ExecCurrentEnv ==
  /\ exec_call.form = "current"
  /\ child_img.pc = "none"
  /\ exec_call' = [exec_call EXCEPT !.form = "update", !.env_update = <<>>]
  /\ UNCHANGED <<vars, rsVars, statusVars, threadVars, grpcVars, environ, parent_io, child_img>>

\* Variant of ExecEnvUpdate: the update alone is handed on as the environment.
ExecEnvUpdate_UpdateOnly ==
  /\ exec_call.form = "update"
  /\ child_img.pc = "none"
  /\ exec_call' = [exec_call EXCEPT !.form = "full", !.env = exec_call.env_update]
  /\ UNCHANGED <<vars, rsVars, statusVars, threadVars, grpcVars, environ, parent_io, child_img>>

\* lines 118-127: the update form calls the full-environment form with the
\* current environment updated with env_update.
ExecEnvUpdate ==
  /\ exec_call.form = "update"
  /\ child_img.pc = "none"
  /\ exec_call' = [exec_call EXCEPT
       !.form = "full",
       !.env = UpdateWith(GetCurrentEnvironmentVariables, exec_call.env_update)]
  /\ UNCHANGED <<vars, rsVars, statusVars, threadVars, grpcVars, environ, parent_io, child_img>>

\* lines 70-113, fork() returns 0 in the child: it is a copy of the parent and
\* enters DoExecve with the env argument of the full-environment form.
ExecFullFork ==
  /\ exec_call.form = "full"
  /\ child_img.pc = "none"
  /\ child_img' = [pc |-> "stdout", env |-> exec_call.env,
                   stdout |-> parent_io.stdout, stderr |-> parent_io.stderr,
                   argv_ptrs |-> <<>>, envp_buf |-> <<>>, envp_ptrs |-> <<>>]
  /\ UNCHANGED <<vars, rsVars, statusVars, threadVars, grpcVars, exec_call, environ, parent_io>>

\* freopen(path, "at", stream): the stream is closed and, when the file can be
\* opened, bound to it in append mode.
Freopen(path, mode, ok) ==
  IF ok THEN [path |-> path, mode |-> mode] ELSE Closed

\* Variant of DoExecveStdout: the file is opened for writing, not appending.
DoExecveStdout_Truncate ==
  /\ child_img.pc = "stdout"
  /\ IF exec_call.stdout_file # None
     THEN \E ok \in BOOLEAN :
            child_img' = [child_img EXCEPT
              !.pc = "stderr",
              !.stdout = Freopen(exec_call.stdout_file[1], "wt", ok)]
     ELSE child_img' = [child_img EXCEPT !.pc = "stderr"]
  /\ UNCHANGED <<vars, rsVars, statusVars, threadVars, grpcVars, exec_call, environ, parent_io>>

\* DoExecve, line 34
DoExecveStdout ==
  /\ child_img.pc = "stdout"
  /\ IF exec_call.stdout_file # None
     THEN \E ok \in BOOLEAN :
            child_img' = [child_img EXCEPT
              !.pc = "stderr",
              !.stdout = Freopen(exec_call.stdout_file[1], "at", ok)]
     ELSE child_img' = [child_img EXCEPT !.pc = "stderr"]
  /\ UNCHANGED <<vars, rsVars, statusVars, threadVars, grpcVars, exec_call, environ, parent_io>>

\* DoExecve, line 35
DoExecveStderr ==
  /\ child_img.pc = "stderr"
  /\ IF exec_call.stderr_file # None
     THEN \E ok \in BOOLEAN :
            child_img' = [child_img EXCEPT
              !.pc = "marshal",
              !.stderr = Freopen(exec_call.stderr_file[1], "at", ok)]
     ELSE child_img' = [child_img EXCEPT !.pc = "marshal"]
  /\ UNCHANGED <<vars, rsVars, statusVars, threadVars, grpcVars, exec_call, environ, parent_io>>

\* DoExecve, lines 51-56: envp_buf gets one "name=value" string per entry of
\* env, envp_ptrs a pointer to each (its index in envp_buf) and a final nullptr
\* (0).
MarshalEnvpBuf(env) == [k \in 1..Len(env) |-> env[k][1] \o "=" \o env[k][2]]

\* Variant of MarshalEnvpPtrs: the terminating nullptr is missing.
MarshalEnvpPtrs_NoNull(env) == [k \in 1..Len(env) |-> k]
MarshalEnvpPtrs(env) == [k \in 1..Len(env) |-> k] \o <<0>>

\* Variant of MarshalArgvPtrs: the command is not put in front of the
\* arguments.
MarshalArgvPtrs_NoCommand(command, args) ==
  [k \in 1..Len(args) |-> Some(args[k])] \o <<None>>

\* DoExecve, lines 44-49: argv_ptrs gets a pointer to the command, one to each
\* argument and a final nullptr. A pointer is written as Some(the string it
\* points to), nullptr as None.
MarshalArgvPtrs(command, args) ==
  <<Some(command)>> \o [k \in 1..Len(args) |-> Some(args[k])] \o <<None>>

\* DoExecve, lines 36-56
DoExecveMarshal ==
  /\ child_img.pc = "marshal"
  /\ child_img' = [child_img EXCEPT
       !.pc = "execve",
       !.argv_ptrs = MarshalArgvPtrs(exec_call.command, exec_call.args),
       !.envp_buf = MarshalEnvpBuf(child_img.env),
       !.envp_ptrs = MarshalEnvpPtrs(child_img.env)]
  /\ UNCHANGED <<vars, rsVars, statusVars, threadVars, grpcVars, exec_call, environ, parent_io>>

\* DoExecve, lines 58-59: execve(command, argv, envp) is called.
DoExecveCall ==
  /\ child_img.pc = "execve"
  /\ child_img' = [child_img EXCEPT !.pc = "called"]
  /\ UNCHANGED <<vars, rsVars, statusVars, threadVars, grpcVars, exec_call, environ, parent_io>>

ExecCalls ==
  {[orig |-> "full", form |-> "full", command |-> "/bin/echo", args |-> <<"a">>,
    env |-> e, env_update |-> <<>>, stdout_file |-> o, stderr_file |-> r] :
     e \in EnvMaps, o \in {None, Some("out.log")}, r \in {None, Some("err.log")}}
  \cup
  {[orig |-> "update", form |-> "update", command |-> "/bin/echo",
    args |-> <<"a">>, env |-> <<>>, env_update |-> u,
    stdout_file |-> o, stderr_file |-> r] :
     u \in EnvMaps, o \in {None, Some("out.log")}, r \in {None, Some("err.log")}}
  \cup
  {[orig |-> "current", form |-> "current", command |-> "/bin/echo",
    args |-> <<"a">>, env |-> <<>>, env_update |-> <<>>,
    stdout_file |-> o, stderr_file |-> r] :
     o \in {None, Some("out.log")}, r \in {None, Some("err.log")}}

InitExecve ==
  /\ ProcInit
  /\ StatusIdle
  /\ exec_call \in ExecCalls
  /\ environ \in EnvMaps
  /\ parent_io = ParentStreams
  /\ child_img = NoChild
  /\ ThreadIdle
  /\ GrpcIdle
  /\ ResultSetIdle

NextExecve ==
  \/ ExecCurrentEnv
  \/ ExecEnvUpdate
  \/ ExecFullFork
  \/ DoExecveStdout
  \/ DoExecveStderr
  \/ DoExecveMarshal
  \/ DoExecveCall

SpecExecve == InitExecve /\ [][NextExecve]_allVars

\* The same calls with the command and the argument list varied and every
\* environment empty.
MaxArgs == 2                   \* arguments in a call
ArgWords == {"a", "b"}         \* argument strings tried
Commands == {"/bin/echo", "a"} \* commands tried

ArgLists == UNION {[1..n -> ArgWords] : n \in 0..MaxArgs}

InitArgv ==
  /\ ProcInit
  /\ StatusIdle
  /\ \E c \in {x \in ExecCalls : x.env = <<>> /\ x.env_update = <<>>} :
       \E command \in Commands, args \in ArgLists :
         exec_call = [c EXCEPT !.command = command, !.args = args]
  /\ environ = <<>>
  /\ parent_io = ParentStreams
  /\ child_img = NoChild
  /\ ThreadIdle
  /\ GrpcIdle
  /\ ResultSetIdle

SpecArgv == InitArgv /\ [][NextExecve]_allVars

\* ======================================================== the thread name
MaxThreadNameLen == 2      \* longest thread name the OS stores
Chars == {"a", "b", "NUL"}   \* characters tried; NUL is the zero byte

\* std::string values of up to one character more than the OS stores
ThreadNames == UNION {[1..n -> Chars] : n \in 0..(MaxThreadNameLen + 1)}

\* c_str() as the OS reads it: the characters before the first zero byte
CStr(name) ==
  IF \E k \in 1..Len(name) : name[k] = "NUL"
  THEN SubSeq(name, 1, (CHOOSE k \in 1..Len(name) :
                          /\ name[k] = "NUL"
                          /\ \A j \in 1..(k - 1) : name[j] # "NUL") - 1)
  ELSE name

\* A name the OS accepts whole: no zero byte inside, not longer than it stores.
ValidThreadName(name) ==
  /\ CStr(name) = name
  /\ Len(name) <= MaxThreadNameLen

\* Variant of StoredThreadName: the terminating zero byte is counted in the
\* space for the name.
StoredThreadName_OffByOne(name) ==
  SubSeq(CStr(name), 1,
         IF Len(CStr(name)) < MaxThreadNameLen THEN Len(CStr(name))
         ELSE MaxThreadNameLen - 1)

\* What the OS keeps of a name it was given
StoredThreadName(name) ==
  SubSeq(CStr(name), 1,
         IF Len(CStr(name)) <= MaxThreadNameLen THEN Len(CStr(name))
         ELSE MaxThreadNameLen)

\* utils::GetCurrentThreadName
GetCurrentThreadName == thread_name

\* utils::SetCurrentThreadName: throws for a name the OS does not accept
\* (part_001 lines 16-18), stores the name otherwise.
SetCurrentThreadName(name) ==
  IF ValidThreadName(name)
  THEN [throws |-> FALSE, stored |-> StoredThreadName(name)]
  ELSE [throws |-> TRUE, stored |-> thread_name]

\* part_001 line 6
SetSelfGetOld ==
  /\ tn_test.pc = "start"
  /\ tn_test' = [tn_test EXCEPT !.pc = "set_new",
                                !.old_name = GetCurrentThreadName]
  /\ UNCHANGED <<vars, rsVars, statusVars, execveVars, grpcVars, thread_name>>

\* part_001 line 9, and lines 16-18 when the name is not valid
SetSelfSetNew ==
  /\ tn_test.pc = "set_new"
  /\ LET r == SetCurrentThreadName(tn_test.new_name)
     IN /\ thread_name' = r.stored
        /\ tn_test' = [tn_test EXCEPT
             !.pc = IF r.throws THEN "threw" ELSE "get_new"]
  /\ UNCHANGED <<vars, rsVars, statusVars, execveVars, grpcVars>>

\* part_001 line 10
SetSelfGetNew ==
  /\ tn_test.pc = "get_new"
  /\ tn_test' = [tn_test EXCEPT !.pc = "set_old",
                                !.seen_new = GetCurrentThreadName]
  /\ UNCHANGED <<vars, rsVars, statusVars, execveVars, grpcVars, thread_name>>

\* part_001 line 12
SetSelfSetOld ==
  /\ tn_test.pc = "set_old"
  /\ LET r == SetCurrentThreadName(tn_test.old_name)
     IN /\ thread_name' = r.stored
        /\ tn_test' = [tn_test EXCEPT
             !.pc = IF r.throws THEN "threw" ELSE "get_old"]
  /\ UNCHANGED <<vars, rsVars, statusVars, execveVars, grpcVars>>

\* part_001 line 13
SetSelfGetOldAgain ==
  /\ tn_test.pc = "get_old"
  /\ tn_test' = [tn_test EXCEPT !.pc = "done",
                                !.seen_old = GetCurrentThreadName]
  /\ UNCHANGED <<vars, rsVars, statusVars, execveVars, grpcVars, thread_name>>

\* The test starts on a thread with any name the OS can hold and tries any
\* new name.
InitThreadName ==
  /\ ProcInit
  /\ StatusIdle
  /\ ExecveIdle
  /\ GrpcIdle
  /\ ResultSetIdle
  /\ thread_name \in {n \in ThreadNames : ValidThreadName(n)}
  /\ \E n \in ThreadNames :
       tn_test = [NoThreadTest EXCEPT !.pc = "start", !.new_name = n]

NextThreadName ==
  \/ SetSelfGetOld
  \/ SetSelfSetNew
  \/ SetSelfGetNew
  \/ SetSelfSetOld
  \/ SetSelfGetOldAgain

SpecThreadName == InitThreadName /\ [][NextThreadName]_allVars

\* ================================================= the ReadMany gRPC stream
MaxNumber == 4             \* greatest number of messages requested

\* Variant of ReadManyWrite: the messages are numbered from one.
ReadManyWrite_FromOne ==
  /\ grpc_server.pc = "loop"
  /\ grpc_server.i < grpc_server.number
  /\ grpc_wire' = [grpc_wire EXCEPT !.msgs = Append(@, grpc_server.i + 1)]
  /\ grpc_server' = [grpc_server EXCEPT !.i = @ + 1]
  /\ UNCHANGED <<vars, rsVars, statusVars, execveVars, threadVars, grpc_stream, grpc_client>>

\* ReadMany, lines 40-43: one turn of the loop writes message number i.
ReadManyWrite ==
  /\ grpc_server.pc = "loop"
  /\ grpc_server.i < grpc_server.number
  /\ grpc_wire' = [grpc_wire EXCEPT !.msgs = Append(@, grpc_server.i)]
  /\ grpc_server' = [grpc_server EXCEPT !.i = @ + 1]
  /\ UNCHANGED <<vars, rsVars, statusVars, execveVars, threadVars, grpc_stream, grpc_client>>

\* ReadMany, lines 40 and 44: the loop ends and the call returns OK, which
\* closes the stream.
ReadManyReturn ==
  /\ grpc_server.pc = "loop"
  /\ ~(grpc_server.i < grpc_server.number)
  /\ grpc_server' = [grpc_server EXCEPT !.pc = "returned"]
  /\ grpc_wire' = [grpc_wire EXCEPT !.closed = TRUE]
  /\ UNCHANGED <<vars, rsVars, statusVars, execveVars, threadVars, grpc_stream, grpc_client>>

\* Messages the input stream holds that the client has not read yet: one
\* waiting for the client and one the stream's reader has in hand (lines
\* 132-134: before the last message is read the end is already known, before
\* an earlier one it is not).
StreamDepth == 2

\* The input stream's reader takes the next message written, or learns that
\* the stream has ended.
StreamReadAhead ==
  /\ ~grpc_stream.finished
  /\ Len(grpc_stream.buffer) < StreamDepth
  /\ \/ /\ grpc_stream.taken < Len(grpc_wire.msgs)
        /\ grpc_stream' = [grpc_stream EXCEPT
             !.taken = @ + 1,
             !.buffer = Append(@, grpc_wire.msgs[grpc_stream.taken + 1])]
     \/ /\ grpc_stream.taken = Len(grpc_wire.msgs)
        /\ grpc_wire.closed
        /\ grpc_stream' = [grpc_stream EXCEPT !.finished = TRUE]
  /\ UNCHANGED <<vars, rsVars, statusVars, execveVars, threadVars, grpc_server, grpc_wire,
                 grpc_client>>

\* is >> in (lines 133 and 136, 161): waits for a message or the end of the
\* stream; gives the oldest message held, or throws ValueReadError when none
\* is left. The tests read once more than the number requested.
StreamRead ==
  /\ Len(grpc_client.reads) <= grpc_server.number
  /\ IF grpc_stream.buffer # <<>>
     THEN /\ grpc_client' = [reads |-> Append(grpc_client.reads,
                                              Returns(Head(grpc_stream.buffer))),
                             finished |-> None]
          /\ grpc_stream' = [grpc_stream EXCEPT !.buffer = Tail(@)]
     ELSE /\ grpc_stream.finished
          /\ grpc_client' = [reads |-> Append(grpc_client.reads,
                                              Throws("ValueReadError")),
                             finished |-> None]
          /\ UNCHANGED grpc_stream
  /\ UNCHANGED <<vars, rsVars, statusVars, execveVars, threadVars, grpc_server, grpc_wire>>

\* IsReadFinished() (lines 132, 140, 157): whether the stream's reader has
\* learnt that the stream has ended.
StreamIsReadFinished ==
  /\ grpc_client.finished = None
  /\ grpc_client' = [grpc_client EXCEPT !.finished = Some(grpc_stream.finished)]
  /\ UNCHANGED <<vars, rsVars, statusVars, execveVars, threadVars, grpc_server, grpc_wire,
                 grpc_stream>>

\* client.ReadMany(out, context) with out.number in 0..MaxNumber (lines 119-129,
\* 150-155)
InitReadMany ==
  /\ ProcInit
  /\ StatusIdle
  /\ ExecveIdle
  /\ ThreadIdle
  /\ \E n \in 0..MaxNumber : grpc_server = [pc |-> "loop", number |-> n, i |-> 0]
  /\ grpc_wire = [msgs |-> <<>>, closed |-> FALSE]
  /\ grpc_stream = [taken |-> 0, buffer |-> <<>>, finished |-> FALSE]
  /\ grpc_client = [reads |-> <<>>, finished |-> None]
  /\ ResultSetIdle

NextReadMany ==
  \/ ReadManyWrite
  \/ ReadManyReturn
  \/ StreamReadAhead
  \/ StreamRead
  \/ StreamIsReadFinished

SpecReadMany == InitReadMany /\ [][NextReadMany]_allVars

\* ================================================= TypedResultSet iteration
MaxRows == 8               \* greatest Size() of a result set
SizeTypeBits == 4          \* width of size_type, scaled down

\* line 347: npos, the greatest value of size_type
npos == 2^SizeTypeBits - 1

\* size_type arithmetic
SizeType(v) == v % 2^SizeTypeBits

\* lines 376-379: begin() is at row 0, end() at row Size()
cbegin == 0
cend == rs_size

\* lines 383-385: rbegin() is a std::reverse_iterator whose base iterator is
\* at row Size() - 1
crbegin == SizeType(rs_size - 1)

\* lines 387-389: rend() is a std::reverse_iterator whose base iterator is at
\* npos
crend == npos

\* const_iterator: ++, -- and * of a random access iterator on the row index
IterNext(index) == SizeType(index + 1)
IterPrev(index) == SizeType(index - 1)
IterDeref(index) == index

\* std::reverse_iterator (line 352): *r is *--base on a copy of the base
\* iterator, ++r is --base, and two of them are equal when their bases are.
ReverseDeref(base) == IterDeref(IterPrev(base))
ReverseNext(base) == IterPrev(base)

\* for (auto it = c.begin(); it != c.end(); ++it): the test it != end
ForwardTest ==
  /\ rs_iter.dir = "forward"
  /\ rs_iter.pc = "test"
  /\ rs_iter' = [rs_iter EXCEPT
       !.pc = IF rs_iter.index # cend THEN "body" ELSE "done"]
  /\ UNCHANGED <<vars, statusVars, execveVars, threadVars, grpcVars,
                 rs_size, rs_visited>>

\* the body *it and the step ++it
ForwardBody ==
  /\ rs_iter.dir = "forward"
  /\ rs_iter.pc = "body"
  /\ rs_visited' = Append(rs_visited, IterDeref(rs_iter.index))
  /\ rs_iter' = [rs_iter EXCEPT !.pc = "test", !.index = IterNext(rs_iter.index)]
  /\ UNCHANGED <<vars, statusVars, execveVars, threadVars, grpcVars, rs_size>>

\* for (auto it = c.rbegin(); it != c.rend(); ++it): the test it != rend
ReverseTest ==
  /\ rs_iter.dir = "reverse"
  /\ rs_iter.pc = "test"
  /\ rs_iter' = [rs_iter EXCEPT
       !.pc = IF rs_iter.index # crend THEN "body" ELSE "done"]
  /\ UNCHANGED <<vars, statusVars, execveVars, threadVars, grpcVars,
                 rs_size, rs_visited>>

\* the body *it and the step ++it
ReverseBody ==
  /\ rs_iter.dir = "reverse"
  /\ rs_iter.pc = "body"
  /\ rs_visited' = Append(rs_visited, ReverseDeref(rs_iter.index))
  /\ rs_iter' = [rs_iter EXCEPT !.pc = "test",
                                !.index = ReverseNext(rs_iter.index)]
  /\ UNCHANGED <<vars, statusVars, execveVars, threadVars, grpcVars, rs_size>>

\* A result set of any size up to MaxRows, iterated forwards or backwards.
InitResultSet ==
  /\ ProcInit
  /\ StatusIdle
  /\ ExecveIdle
  /\ ThreadIdle
  /\ GrpcIdle
  /\ rs_size \in 0..MaxRows
  /\ rs_visited = <<>>
  /\ \/ rs_iter = [dir |-> "forward", pc |-> "test", index |-> cbegin]
     \/ rs_iter = [dir |-> "reverse", pc |-> "test", index |-> crbegin]

NextResultSet ==
  \/ ForwardTest
  \/ ForwardBody
  \/ ReverseTest
  \/ ReverseBody

SpecResultSet == InitResultSet /\ [][NextResultSet]_allVars

\* ================================================================ claims
InWorkItem == {"fork", "register", "set_value", "kill", "set_exception", "exit"}

\* Handles that exist: delivered through an outer promise or held by a task.
IssuedHandles ==
  ({held[t] : t \in Tasks} \cup {promise[t].handle : t \in Tasks}) \ {NoHandle}

\* C1: the registry never holds two entries for one pid, and a registration
\* attempt for a pid that already has an entry fails (the work item takes the
\* collision branch) and leaves the registry as it was.
C1_OneEntryPerPid ==
  /\ [](\A e1, e2 \in child_process_map : e1.pid = e2.pid => e1 = e2)
  /\ [][\A t \in Tasks :
          (wpc[t] = "register" /\ wpc'[t] # "register" /\ HasEntry(wpid[t]))
            => /\ child_process_map' = child_process_map
               /\ wpc'[t] = "kill"]_vars

C1_Witness ==
  \E t \in Tasks :
    /\ wpc[t] = "kill"
    /\ HasEntry(wpid[t])
    /\ EntryOf(wpid[t]).status_promise # wproc[t]

\* C2: a handle issued for process i reads the promise stored in i's registry
\* entry; while that promise is unset exactly one entry exists for the pid and
\* it is that one; the promise is set at most once, and once the reaper has
\* observed i it has been set exactly once and the handle yields that status.
C2_OneEntryOneStatus ==
  \A h \in IssuedHandles :
    /\ h.future = h.proc
    /\ h.future \in Procs
    /\ status_promise[h.future].nset <= 1
    /\ status_promise[h.future].nset = 0 =>
         /\ status_promise[h.future].state = "pending"
         /\ {e \in child_process_map : e.pid = h.pid}
              = {[pid |-> h.pid, status_promise |-> h.future]}
    /\ ps[h.proc].state = "reaped" =>
         /\ status_promise[h.future].nset = 1
         /\ status_promise[h.future].state = "ready"
    /\ h.status # NoStatus => h.status = status_promise[h.future].status

C2_Witness ==
  \E t \in Tasks :
    /\ callerPc[t] = "has_status"
    /\ ps[held[t].proc].state = "reaped"
    /\ held[t].status.proc = held[t].proc

\* C3 (as claimed): the status a holder receives through its handle is the
\* termination status of the process the handle was issued for, also when a
\* later registration for the same pid collided with the holder's entry.
C3_FirstHolderGetsOwnStatus ==
  \A t \in Tasks :
    held[t].status # NoStatus => held[t].status.proc = held[t].proc

\* C4 (as claimed): every Exec work item that ended in a failure (fork error
\* or registration collision) has completed the outer promise with an
\* exception, and never with a handle.
C4_FailurePropagates ==
  \A t \in Tasks :
    (wpc[t] = "threw" \/ (wpc[t] \in {"exit", "done"} /\ ~wres[t].second))
      => promise[t].state = "exception"

\* C5: whenever the outer promise has been failed for a collision, the newly
\* forked process, as long as it exists, has already been sent SIGKILL.
C5_KillBeforeFailure ==
  \A t \in Tasks :
    (promise[t].state = "exception" /\ wproc[t] # 0)
      => (ps[wproc[t]].state \in (Live \cup {"zombie"}) => ps[wproc[t]].kill)

C5_Witness ==
  \E t \in Tasks :
    /\ promise[t].state = "exception"
    /\ wproc[t] # 0
    /\ ps[wproc[t]].state \in Live
    /\ ps[wproc[t]].kill

\* C6: no step taken while a work item is at fork, at a colliding
\* registration, at the kill or at set_exception changes the registry or the
\* promise of any entry stored in it.
C6_CollisionLeavesRegistry ==
  [][\A t \in Tasks :
       (\/ wpc[t] \in {"fork", "kill", "set_exception"}
        \/ (wpc[t] = "register" /\ HasEntry(wpid[t])))
         => /\ child_process_map' = child_process_map
            /\ \A e \in child_process_map :
                 status_promise'[e.status_promise] = status_promise[e.status_promise]]_vars

C6_Witness ==
  \E t \in Tasks :
    /\ promise[t].state = "exception"
    /\ HasEntry(wpid[t])
    /\ status_promise[EntryOf(wpid[t]).status_promise].state = "pending"

\* C7 (as claimed): once fork() has failed in a task's work item, the task's
\* outer promise holds an exception.
C7_ForkFailureSurfaces ==
  \A t \in Tasks : wpc[t] = "threw" => promise[t].state = "exception"

\* C8 (as claimed): no forked child leaves DoExecve by an exception or a
\* return; a child whose execve failed is aborted.
C8_ChildNeverLeavesDoExecve ==
  \A i \in Procs : ps[i].state # "escaped"

\* C9: whenever the reaper observes the termination of a process, the work
\* item that forked it has already made its registration attempt.
C9_RegisterBeforeReap ==
  [][\A i \in Procs :
       (ps'[i].state = "reaped" /\ ps[i].state # "reaped")
         => /\ status_promise[i].state # "none"
            /\ ~\E t \in Tasks : wproc[t] = i /\ wpc[t] \in {"fork", "register"}]_vars

C9_Witness ==
  \E t \in Tasks :
    /\ wpc[t] = "register"
    /\ ps[wproc[t]].state = "zombie"

\* C10: a work item between its start and its promise completion runs on the
\* event-loop thread, so at most one Exec call is inside fork+register.
C10_ForkRegisterSerialized ==
  /\ \A t \in Tasks : wpc[t] \in InWorkItem => evCur = t
  /\ Cardinality({t \in Tasks : wpc[t] \in InWorkItem}) <= 1

C10_Witness ==
  \E t1, t2 \in Tasks :
    /\ t1 # t2
    /\ wpc[t1] = "register"
    /\ wpc[t2] = "queued"

C12_WrongAccessorFaults ==
  /\ status_call.fn = "GetExitCode" =>
        IF IsExited(status_obj)
        THEN status_call.result = Returns(status_obj.exit_code)
        ELSE status_call.result = Throws("ChildProcessStatusException")
  /\ status_call.fn = "GetTermSignal" =>
        IF IsSignaled(status_obj)
        THEN status_call.result = Returns(status_obj.term_signal)
        ELSE status_call.result = Throws("ChildProcessStatusException")

C12_Witness ==
  /\ status_call.fn = "GetExitCode"
  /\ GetExitReason(status_obj) = "kSignaled"
  /\ status_call.result = Throws("ChildProcessStatusException")

\* C13: a constructed status has exactly one of IsExited() and IsSignaled()
\* true, as its exit reason says, and the object never changes afterwards.
C13_ExactlyOneReasonForever ==
  /\ [](status_obj # NoObject =>
          /\ IsExited(status_obj) # IsSignaled(status_obj)
          /\ IsExited(status_obj) = (GetExitReason(status_obj) = "kExited")
          /\ IsSignaled(status_obj) = (GetExitReason(status_obj) = "kSignaled"))
  /\ [][status_obj # NoObject => status_obj' = status_obj]_allVars

C13_Witness ==
  /\ status_obj # NoObject
  /\ IsSignaled(status_obj)
  /\ status_call.fn = "IsExited"
  /\ status_call.result = Returns(FALSE)

\* C14: when KILL has been sent through a handle while its process is alive,
\* the handle's future eventually holds a status that is signaled with
\* SIGKILL, so the wait on the handle completes with it.
C14_KillEventuallySignaled ==
  \A i \in Procs :
    (\E t \in Tasks : /\ held[t].proc = i
                      /\ held[t].sig = "sent"
                      /\ ps[i].state \in Live)
      ~> (/\ status_promise[i].state = "ready"
          /\ status_promise[i].status = Signaled(i, SIGKILL))

C14_Witness ==
  \E t \in Tasks :
    /\ callerPc[t] = "has_status"
    /\ held[t].sig = "sent"
    /\ held[t].status = Signaled(held[t].proc, SIGKILL)


\* The child of exec_call has reached its execve() call.
AtExecve == child_img.pc \in {"execve", "called"}

\* C15: for the environment-update form, the environment passed to the child
\* is the current environment overlaid with env_update: its names are those of
\* either, every name of env_update has its env_update value, and every
\* inherited name env_update does not mention keeps its inherited value.
C15_UpdateOverlaysCurrent ==
  (exec_call.orig = "update" /\ child_img.pc # "none") =>
    /\ EnvKeys(child_img.env) = EnvKeys(environ) \cup EnvKeys(exec_call.env_update)
    /\ Cardinality(EnvKeys(child_img.env)) = Len(child_img.env)
    /\ \A n \in EnvKeys(exec_call.env_update) :
         EnvValue(child_img.env, n) = EnvValue(exec_call.env_update, n)
    /\ \A n \in EnvKeys(environ) \ EnvKeys(exec_call.env_update) :
         EnvValue(child_img.env, n) = EnvValue(environ, n)

\* A child of the update form at execve(): the update replaced one inherited
\* value, added one name, and left one inherited name alone.
C15_Witness ==
  /\ exec_call.orig = "update"
  /\ child_img.pc = "called"
  /\ \E n \in EnvKeys(exec_call.env_update) \cap EnvKeys(environ) :
       EnvValue(exec_call.env_update, n) # EnvValue(environ, n)
  /\ EnvKeys(exec_call.env_update) \ EnvKeys(environ) # {}
  /\ EnvKeys(environ) \ EnvKeys(exec_call.env_update) # {}

\* C16: the form without an environment becomes the update form with an empty
\* update and nothing else of the call changed, and both of these pass the
\* child the current environment as it is; every form reaches the same fork.
C16_CurrentEnvIsEmptyUpdate ==
  /\ (exec_call.orig = "current" /\ exec_call.form # "current") =>
       exec_call.env_update = <<>>
  /\ (exec_call.orig \in {"current", "update"} /\ exec_call.env_update = <<>>
      /\ child_img.pc # "none") =>
       child_img.env = environ
  /\ child_img.pc # "none" => exec_call.form = "full"

\* A child of the form without an environment at execve(), the parent's
\* environment not being empty.
C16_Witness ==
  /\ exec_call.orig = "current"
  /\ child_img.pc = "called"
  /\ Len(environ) = MaxEnvLen
  /\ child_img.env = environ

\* C17: for the full-environment form, envp at execve() is one "name=value"
\* string per entry of env, in env's order, then one null pointer, and it has
\* no variable of the parent's environment that env lacks.
C17_EnvpVerbatim ==
  (exec_call.orig = "full" /\ AtExecve) =>
    LET env == exec_call.env
        envp == child_img.envp_ptrs
        buf == child_img.envp_buf
    IN /\ Len(envp) = Len(env) + 1
       /\ envp[Len(envp)] = 0
       /\ \A k \in 1..Len(env) :
            /\ envp[k] # 0
            /\ buf[envp[k]] = env[k][1] \o "=" \o env[k][2]
       /\ \A n \in EnvKeys(environ) \ EnvKeys(env) :
            \A v \in EnvValues, k \in 1..Len(env) :
              buf[envp[k]] # n \o "=" \o v

\* A child of the full-environment form at execve() with a full env and a
\* parent variable that env lacks.
C17_Witness ==
  /\ exec_call.orig = "full"
  /\ child_img.pc = "called"
  /\ Len(exec_call.env) = MaxEnvLen
  /\ EnvKeys(environ) \ EnvKeys(exec_call.env) # {}

C20_ReadManyInOrderThenEnd ==
  LET N == grpc_server.number
      reads == grpc_client.reads
  IN /\ \A k \in 1..Len(reads) :
          reads[k] = IF k <= N THEN Returns(k - 1) ELSE Throws("ValueReadError")
     /\ (Len(reads) = N + 1 /\ grpc_client.finished # None) =>
          grpc_client.finished = Some(TRUE)

\* The greatest number of messages was requested and read, the read after
\* them failed and IsReadFinished() was called after it.
C20_Witness ==
  /\ grpc_server.number = MaxNumber
  /\ Len(grpc_client.reads) = MaxNumber + 1
  /\ grpc_client.reads[MaxNumber + 1] = Throws("ValueReadError")
  /\ grpc_client.finished = Some(TRUE)


\* Work-item positions after the fork() of line 92 has returned or thrown.
PastFork ==
  {"register", "set_value", "kill", "set_exception", "exit", "done", "threw"}

\* C21: an Exec call makes exactly one fork() call on every path: none before
\* its work item reaches line 92, one after it, however the call ends; the call
\* has created at most one process, and calls under way or with their handles
\* still held have created different processes.
C21_OneForkPerExec ==
  /\ \A t \in Tasks :
       /\ Len(fork_calls[t]) <= 1
       /\ wpc[t] \in PastFork => Len(fork_calls[t]) = 1
       /\ wpc[t] \in {"queued", "fork"} => fork_calls[t] = <<>>
       /\ promise[t].state \in {"value", "exception"} => Len(fork_calls[t]) = 1
       /\ wproc[t] # 0 <=> (fork_calls[t] # <<>> /\ fork_calls[t][1] # -1)
  /\ \A t, u \in Tasks :
       t # u =>
         /\ (wproc[t] # 0 /\ wproc[u] # 0) => wproc[t] # wproc[u]
         /\ (held[t].proc # 0 /\ held[u].proc # 0) => held[t].proc # held[u].proc
         /\ (wproc[t] # 0 /\ held[u].proc # 0) => wproc[t] # held[u].proc
  /\ nprocs = Cardinality({i \in Procs : ps[i].state # "none"})

\* Two calls have each forked once and their two processes are there, one
\* call's handle already held, the other's work item just past fork().
C21_Witness ==
  \E t, u \in Tasks :
    /\ t # u
    /\ held[t].proc # 0
    /\ wpc[u] = "register"
    /\ Len(fork_calls[u]) = 1
    /\ wproc[u] # held[t].proc
    /\ nprocs = 2


\* C22: a work item whose fork() returned a pid completes the outer promise
\* exactly once, with a value when the registration succeeded and with an
\* exception when it collided; only a work item whose fork() failed ends
\* without a completion; and the work item uses nothing it captured by
\* reference after the completion, so that once Exec has returned it is at
\* most leaving the lambda and no captured object is used dead.
C22_CompletesOnceThenLetsGo ==
  /\ ~dangling
  /\ \A t \in Tasks :
       /\ promise[t].nset <= 1
       /\ promise[t].state \in {"value", "exception"} =>
            /\ wpc[t] \in {"exit", "done"}
            /\ promise[t].nset = 1
            /\ promise[t].state = "value" <=> wres[t].second
       /\ (wpc[t] \in {"exit", "done"} /\ callerPc[t] = "in_exec") =>
            promise[t].state \in {"value", "exception"}
       /\ wpc[t] \in {"exit", "done"} => fork_calls[t][1] > 0
       /\ wpc[t] = "threw" => fork_calls[t] = <<-1>>
       /\ callerPc[t] # "in_exec" => wpc[t] \in {"none", "exit"}

\* Exec has returned a handle to its caller while the work item that completed
\* the promise has not left the lambda yet.
C22_Witness ==
  \E t \in Tasks :
    /\ callerPc[t] = "has_handle"
    /\ wpc[t] = "exit"
    /\ held[t].pid = wpid[t]
    /\ ~dangling


\* C23: argv at execve() has args.size() + 2 elements: a pointer to the
\* command first, then a pointer to each argument in the order given, then one
\* null pointer, and no null pointer before the last element.
C23_ArgvCommandArgsNull ==
  AtExecve =>
    LET argv == child_img.argv_ptrs
        args == exec_call.args
    IN /\ Len(argv) = Len(args) + 2
       /\ argv[1] = Some(exec_call.command)
       /\ \A k \in 1..Len(args) : argv[k + 1] = Some(args[k])
       /\ argv[Len(argv)] = None
       /\ \A k \in 1..(Len(argv) - 1) : argv[k] # None

\* A child at execve() whose call had the greatest number of arguments, the
\* same string twice, and a command equal to none of them.
C23_Witness ==
  /\ child_img.pc = "called"
  /\ Len(exec_call.args) = MaxArgs
  /\ exec_call.args[1] = exec_call.args[2]
  /\ \A k \in 1..Len(exec_call.args) : exec_call.args[k] # exec_call.command
  /\ Len(child_img.argv_ptrs) = MaxArgs + 2


\* The rows of the result set, last to first.
RowsBackwards == [k \in 1..rs_size |-> rs_size - k]

\* C24 (as claimed): iterating from rbegin() to rend() dereferences only row
\* indexes in 0..Size()-1, has visited the rows Size()-1, ..., 0 in that order
\* when it ends, and for Size() = 0 rbegin() equals rend().
C24_ReverseVisitsEveryRow ==
  rs_iter.dir = "reverse" =>
    /\ \A k \in 1..Len(rs_visited) : rs_visited[k] \in 0..(rs_size - 1)
    /\ rs_iter.pc = "done" => rs_visited = RowsBackwards
    /\ rs_size = 0 => crbegin = crend

====
